---- MODULE Spec2Model ----
(***************************************************************************)
(* Model of OptimalSolver (src/optimal_solution.py): exhaustive DFS        *)
(* enumeration of simple paths, per-path MLU evaluation over the whole     *)
(* graph, and ranking of the candidates by MLU.                            *)
(*                                                                         *)
(* The graph is a networkx.Graph: an insertion-ordered node list, an       *)
(* insertion-ordered adjacency list per node, and a weight per undirected  *)
(* edge.  A utilization (a Python float new_weight / total_capacity) is    *)
(* kept as the exact fraction <<numerator, denominator>>; fractions are    *)
(* compared by cross-multiplication.                                       *)
(***************************************************************************)
EXTENDS Integers, Sequences, FiniteSets, TLC

VARIABLES graph, total_capacity, call, result

vars == <<graph, total_capacity, call, result>>

-----------------------------------------------------------------------------
(* Bounds of the model *)

MaxWeight == 1
MaxBandwidth == 1
MaxPathLength == 3

(* Program constant: OptimalSolver.__init__(graph, total_capacity=10) *)
DefaultCapacity == 10

-----------------------------------------------------------------------------
(* Python values *)

\* None is the empty tuple; an optional argument given as n is <<n>>
None == << >>
Given(n) == <<n>>
\* float('inf'), as the fraction 1/0
Inf == <<1, 0>>
NoException == "none"
NetworkXError == "NetworkXError"
ZeroDivisionError == "ZeroDivisionError"

\* the node labels of the graphs of the model, and a label that is in none
Nodes == {1, 2, 3, 4}
Labels == Nodes \cup {5}

\* bool(max_path_length): None and 0 are falsy
Truthy(x) == x # None /\ x # Given(0)

-----------------------------------------------------------------------------
(* networkx.Graph *)

\* G.neighbors(n): the adjacency of n in insertion order
Neighbors(G, n) == G.adj[n]

HasNode(G, n) == \E i \in 1..Len(G.nodes) : G.nodes[i] = n

RECURSIVE EdgesFrom(_, _, _, _)
\* the edges (u, v) reported at node G.nodes[i], from its j-th neighbour on:
\* a neighbour that was itself listed earlier has reported the edge already
EdgesFrom(G, i, j, seen) ==
    IF i > Len(G.nodes) THEN << >>
    ELSE LET u == G.nodes[i] IN
         IF j > Len(G.adj[u]) THEN EdgesFrom(G, i + 1, 1, seen \cup {u})
         ELSE LET v == G.adj[u][j] IN
              IF v \in seen THEN EdgesFrom(G, i, j + 1, seen)
              ELSE << <<u, v, G.weight[{u, v}]>> >> \o EdgesFrom(G, i, j + 1, seen)

\* G.edges(data=True): the sequence of (u, v, data)
Edges(G) == EdgesFrom(G, 1, 1, {})

-----------------------------------------------------------------------------
(* find_all_simple_paths_dfs *)

\* "if max_path_length and len(path) >= max_path_length: return"
Pruned(path, max_path_length) ==
    Truthy(max_path_length) /\ Len(path) >= max_path_length[1]

\* visited.remove(current) on leaving dfs; the faulty variant leaves the node marked
KeepVisited(visited, current) == visited
LeaveVisited(visited, current) == visited \ {current}

\* path.pop() after the recursive call; the faulty variant leaves the node on the path
KeepPath(path) == path
PopPath(path) == SubSeq(path, 1, Len(path) - 1)

RECURSIVE dfs(_, _, _, _, _)
RECURSIVE ForNeighbors(_, _, _, _, _, _)

\* a faulty variant: the length check comes before the test for the target
PruneBeforeTarget(G, max_path_length, target, current, st) ==
    IF Pruned(st.path, max_path_length)
    THEN st
    ELSE IF current = target
    THEN [st EXCEPT !.all_paths = Append(@, st.path)]
    ELSE IF ~HasNode(G, current)
    THEN [st EXCEPT !.visited = @ \cup {current}, !.raised = NetworkXError]
    ELSE LET entered == [st EXCEPT !.visited = @ \cup {current}]
             after == ForNeighbors(G, max_path_length, target,
                                   Neighbors(G, current), 1, entered)
         IN IF after.raised # NoException THEN after
            ELSE [after EXCEPT !.visited = LeaveVisited(@, current)]

\* The search state st = [all_paths, visited, path, raised] is the closure's
\* all_paths and the visited set and path buffer every call shares.
dfs(G, max_path_length, target, current, st) ==
    IF current = target
    THEN [st EXCEPT !.all_paths = Append(@, st.path)]
    ELSE IF Pruned(st.path, max_path_length)
    THEN st
    ELSE IF ~HasNode(G, current)
    THEN [st EXCEPT !.visited = @ \cup {current}, !.raised = NetworkXError]
    ELSE LET entered == [st EXCEPT !.visited = @ \cup {current}]
             after == ForNeighbors(G, max_path_length, target,
                                   Neighbors(G, current), 1, entered)
         IN IF after.raised # NoException THEN after
            ELSE [after EXCEPT !.visited = LeaveVisited(@, current)]

\* "for neighbor in self.graph.neighbors(current)", from the i-th on
ForNeighbors(G, max_path_length, target, nbrs, i, st) ==
    IF i > Len(nbrs) \/ st.raised # NoException THEN st
    ELSE LET neighbor == nbrs[i] IN
         IF neighbor \notin st.visited
         THEN LET pushed == [st EXCEPT !.path = Append(@, neighbor)]
                  back == dfs(G, max_path_length, target, neighbor, pushed)
                  popped == IF back.raised # NoException THEN back
                            ELSE [back EXCEPT !.path = PopPath(@)]
              IN ForNeighbors(G, max_path_length, target, nbrs, i + 1, popped)
         ELSE ForNeighbors(G, max_path_length, target, nbrs, i + 1, st)

Returned(v) == [kind |-> "return", value |-> v]
Raised(e) == [kind |-> "raise", value |-> e]

find_all_simple_paths_dfs(G, source, target, max_path_length) ==
    LET st == dfs(G, max_path_length, target, source,
                  [all_paths |-> << >>, visited |-> {},
                   path |-> <<source>>, raised |-> NoException])
    IN IF st.raised # NoException THEN Raised(st.raised)
       ELSE Returned(st.all_paths)

------------------------------------------------------------------------

-----------------------------------------------------------------------------
(* Utilizations: exact fractions in lowest terms *)

Abs(n) == IF n < 0 THEN -n ELSE n

RECURSIVE GCD(_, _)
GCD(a, b) == IF b = 0 THEN a ELSE GCD(b, a % b)

\* the value of n / d for d > 0
Fraction(n, d) == IF n = 0 THEN <<0, 1>>
                  ELSE LET g == GCD(Abs(n), d) IN <<n \div g, d \div g>>

\* the int 0 that max_utilization starts from
Zero == <<0, 1>>

\* a < b on fractions with non-negative denominators (Inf is 1/0)
Less(a, b) == a[1] * b[2] < b[1] * a[2]

\* a faulty variant: the utilization of the edge scanned last is kept
TakeLatter(a, b) == b

\* Python's max(a, b): b only when it is greater than a
PyMax(a, b) == IF Less(a, b) THEN b ELSE a

-----------------------------------------------------------------------------
(* calculate_mlu_for_path *)

\* a faulty variant: one direction compared only
EdgeOnPathOneWay(path, u, v) ==
    \E i \in 1..(Len(path) - 1) : path[i] = u /\ path[i + 1] = v

\* the scan "for i in range(len(path) - 1)" with both directions compared
EdgeOnPath(path, u, v) ==
    \E i \in 1..(Len(path) - 1) :
        \/ path[i] = u /\ path[i + 1] = v
        \/ path[i] = v /\ path[i + 1] = u

\* the weight whose utilization is taken for an edge
NewWeight(edge_on_path, current_weight, bandwidth) ==
    IF edge_on_path THEN current_weight + bandwidth ELSE current_weight

RECURSIVE MluLoop(_, _, _, _, _, _)
\* "for u, v, data in self.graph.edges(data=True)", from the i-th edge on
MluLoop(edges, i, capacity, path, bandwidth, max_utilization) ==
    IF i > Len(edges) THEN Returned(max_utilization)
    ELSE LET u == edges[i][1]
             v == edges[i][2]
             current_weight == edges[i][3]
             new_weight == NewWeight(EdgeOnPath(path, u, v), current_weight, bandwidth)
         IN IF capacity = 0 THEN Raised(ZeroDivisionError)
            ELSE MluLoop(edges, i + 1, capacity, path, bandwidth,
                         PyMax(max_utilization, Fraction(new_weight, capacity)))

calculate_mlu_for_path(G, capacity, path, bandwidth) ==
    MluLoop(Edges(G), 1, capacity, path, bandwidth, Zero)

\* a faulty variant: the provisional weight is stored in the edge's data
WrittenBack(current_weight, new_weight) == new_weight

\* data['weight'] after an edge is scanned: new_weight is a local of the
\* loop, and nothing is assigned to data
EdgeDataAfter(current_weight, new_weight) == current_weight

RECURSIVE WeightAfterScan(_, _, _, _, _, _)
\* the weights of the graph after the loop over the edges, from the i-th on;
\* the division by a capacity of 0 ends the loop at its first edge
WeightAfterScan(edges, i, capacity, path, bandwidth, weight) ==
    IF i > Len(edges) THEN weight
    ELSE LET u == edges[i][1]
             v == edges[i][2]
             current_weight == weight[{u, v}]
             new_weight == NewWeight(EdgeOnPath(path, u, v), current_weight, bandwidth)
             after == [weight EXCEPT ![{u, v}] = EdgeDataAfter(current_weight, new_weight)]
         IN IF capacity = 0 THEN after
            ELSE WeightAfterScan(edges, i + 1, capacity, path, bandwidth, after)

\* self.graph after calculate_mlu_for_path(path, bandwidth)
GraphAfterMlu(G, capacity, path, bandwidth) ==
    [G EXCEPT !.weight = WeightAfterScan(Edges(G), 1, capacity, path, bandwidth, @)]

-----------------------------------------------------------------------------
(* find_optimal_path *)

RECURSIVE EvaluateAll(_, _, _, _, _, _)
\* "for path in all_paths: ... path_mlu_list.append((path, mlu))"
EvaluateAll(G, capacity, all_paths, i, bandwidth, path_mlu_list) ==
    IF i > Len(all_paths) THEN Returned(path_mlu_list)
    ELSE LET mlu == calculate_mlu_for_path(G, capacity, all_paths[i], bandwidth)
         IN IF mlu.kind = "raise" THEN mlu
            ELSE EvaluateAll(G, capacity, all_paths, i + 1, bandwidth,
                             Append(path_mlu_list, <<all_paths[i], mlu.value>>))

\* a faulty variant, an unstable sort: x goes before the elements of equal key
InsertBeforeEqual(s, x) ==
    Cardinality({j \in 1..Len(s) : Less(s[j][2], x[2])}) + 1

\* where a stable ascending sort puts x among the sorted elements of s:
\* after every element whose key is not greater than x's
InsertPosition(s, x) ==
    Cardinality({j \in 1..Len(s) : ~Less(x[2], s[j][2])}) + 1

InsertSorted(s, x) ==
    LET k == InsertPosition(s, x)
    IN SubSeq(s, 1, k - 1) \o <<x>> \o SubSeq(s, k, Len(s))

RECURSIVE SortFrom(_, _, _)
SortFrom(list, i, sorted) ==
    IF i > Len(list) THEN sorted
    ELSE SortFrom(list, i + 1, InsertSorted(sorted, list[i]))

\* path_mlu_list.sort(key=lambda x: x[1]): ascending and stable
SortByMlu(list) == SortFrom(list, 1, << >>)

find_optimal_path(G, capacity, source, target, bandwidth, max_path_length) ==
    LET all_paths == find_all_simple_paths_dfs(G, source, target, max_path_length)
    IN IF all_paths.kind = "raise" THEN all_paths
       ELSE IF all_paths.value = << >> THEN Returned(<<None, Inf, << >> >>)
       ELSE LET evaluated == EvaluateAll(G, capacity, all_paths.value, 1,
                                         bandwidth, << >>)
            IN IF evaluated.kind = "raise" THEN evaluated
               ELSE LET path_mlu_list == SortByMlu(evaluated.value)
                    IN Returned(<<path_mlu_list[1][1], path_mlu_list[1][2],
                                  path_mlu_list>>)

RECURSIVE GraphAfterEvaluations(_, _, _, _, _)
\* self.graph after the evaluations of all_paths from the i-th on; an
\* evaluation that raises ends them
GraphAfterEvaluations(G, capacity, all_paths, i, bandwidth) ==
    IF i > Len(all_paths) THEN G
    ELSE LET after == GraphAfterMlu(G, capacity, all_paths[i], bandwidth)
         IN IF calculate_mlu_for_path(G, capacity, all_paths[i], bandwidth).kind = "raise"
            THEN after
            ELSE GraphAfterEvaluations(after, capacity, all_paths, i + 1, bandwidth)

\* self.graph after find_all_simple_paths_dfs, which reads graph.neighbors only
GraphAfterEnumeration(G, source, target, max_path_length) == G

\* self.graph after find_optimal_path
GraphAfterSelection(G, capacity, source, target, bandwidth, max_path_length) ==
    LET all_paths == find_all_simple_paths_dfs(G, source, target, max_path_length)
        enumerated == GraphAfterEnumeration(G, source, target, max_path_length)
    IN IF all_paths.kind = "raise" THEN enumerated
       ELSE GraphAfterEvaluations(enumerated, capacity, all_paths.value, 1, bandwidth)

-----------------------------------------------------------------------------
(* Topologies and arguments of the model *)

Pairs == {e \in SUBSET Nodes : Cardinality(e) = 2}

Ascending == <<1, 2, 3, 4>>
Descending == <<4, 3, 2, 1>>
NeighborOrders == {Ascending, Descending}

\* the graph with edge set E and weights w, nodes added in ascending order,
\* each adjacency list in the order of `order`
MakeGraph(E, order, w) ==
    [nodes |-> Ascending,
     adj |-> [n \in Nodes |-> SelectSeq(order, LAMBDA m : {n, m} \in E)],
     weight |-> w]

\* every graph on Nodes, all weights 1
ShapeTopologies ==
    {MakeGraph(E, order, [e \in E |-> 1]) :
        E \in SUBSET Pairs, order \in NeighborOrders}

RingWithChord == {{1, 2}, {2, 3}, {3, 4}, {1, 4}, {2, 4}}
Chain == {{1, 2}, {2, 3}}
WeightedShapes == {RingWithChord, Chain}

\* every weighting of the weighted shapes
WeightedTopologies ==
    UNION {{MakeGraph(E, Ascending, w) : w \in [E -> 0..MaxWeight]} :
           E \in WeightedShapes}

Capacities == {0, DefaultCapacity}

PathLengths == {None} \cup {Given(n) : n \in 0..MaxPathLength}

Bandwidths == (-1)..MaxBandwidth

\* the node sequences without a repeated node
RECURSIVE DistinctSeqs(_)
DistinctSeqs(n) ==
    IF n = 0 THEN {<< >>}
    ELSE LET shorter == DistinctSeqs(n - 1)
         IN shorter \cup
            {Append(p, m) : p \in {q \in shorter : Len(q) = n - 1}, m \in Nodes}
NodePaths ==
    {p \in DistinctSeqs(Cardinality(Nodes)) :
        /\ p # << >>
        /\ \A i, j \in 1..Len(p) : i # j => p[i] # p[j]}

\* the paths a caller evaluates: node sequences without a repeated node whose
\* consecutive nodes are joined by an edge of G
PathsOver(G) ==
    {p \in NodePaths :
        \A i \in 1..(Len(p) - 1) : {p[i], p[i + 1]} \in DOMAIN G.weight}

-----------------------------------------------------------------------------
(* The solver and its caller *)

Idle == [op |-> "none"]
NoResult == [kind |-> "none"]

\* solver = OptimalSolver(graph) over a loaded graph
Init ==
    /\ \/ graph \in ShapeTopologies /\ total_capacity \in Capacities
       \/ graph \in WeightedTopologies /\ total_capacity = DefaultCapacity
    /\ call = Idle
    /\ result = NoResult

FindAllSimplePaths ==
    /\ call = Idle
    /\ \E source \in Labels, target \in Labels, max_path_length \in PathLengths :
        /\ call' = [op |-> "find_all_simple_paths_dfs", source |-> source,
                    target |-> target, max_path_length |-> max_path_length]
        /\ result' = find_all_simple_paths_dfs(graph, source, target, max_path_length)
        /\ graph' = GraphAfterEnumeration(graph, source, target, max_path_length)
    /\ UNCHANGED total_capacity

CalculateMluForPath ==
    /\ call = Idle
    /\ \E path \in PathsOver(graph), bandwidth \in Bandwidths :
        /\ call' = [op |-> "calculate_mlu_for_path", path |-> path,
                    bandwidth |-> bandwidth]
        /\ result' = calculate_mlu_for_path(graph, total_capacity, path, bandwidth)
        /\ graph' = GraphAfterMlu(graph, total_capacity, path, bandwidth)
    /\ UNCHANGED total_capacity

FindOptimalPath ==
    /\ call = Idle
    /\ \E source \in Labels, target \in Labels, bandwidth \in Bandwidths,
          max_path_length \in PathLengths :
        /\ call' = [op |-> "find_optimal_path", source |-> source,
                    target |-> target, bandwidth |-> bandwidth,
                    max_path_length |-> max_path_length]
        /\ result' = find_optimal_path(graph, total_capacity, source, target,
                                       bandwidth, max_path_length)
        /\ graph' = GraphAfterSelection(graph, total_capacity, source, target,
                                        bandwidth, max_path_length)
    /\ UNCHANGED total_capacity

\* the caller takes the result (or the exception) and may call again
Return ==
    /\ call # Idle
    /\ call' = Idle
    /\ result' = NoResult
    /\ UNCHANGED <<graph, total_capacity>>

Next ==
    \/ FindAllSimplePaths
    \/ CalculateMluForPath
    \/ FindOptimalPath
    \/ Return

Spec == Init /\ [][Next]_vars

-----------------------------------------------------------------------------
(* What the properties below speak of *)

EdgeSet(G) == DOMAIN G.weight

Range(s) == {s[i] : i \in 1..Len(s)}

NoRepeat(p) == \A i, j \in 1..Len(p) : i # j => p[i] # p[j]

Adjacent(G, p) == \A i \in 1..(Len(p) - 1) : {p[i], p[i + 1]} \in EdgeSet(G)

\* p is a simple path of G from s to t
IsSimplePath(G, p, s, t) ==
    /\ Len(p) >= 1
    /\ p[1] = s
    /\ p[Len(p)] = t
    /\ NoRepeat(p)
    /\ Adjacent(G, p)

SimplePaths(G, s, t) == {p \in NodePaths : IsSimplePath(G, p, s, t)}

\* the simple paths with at most h edges; every one when no bound is given
SimplePathsWithin(G, s, t, max_hops) ==
    {p \in SimplePaths(G, s, t) : max_hops = None \/ Len(p) - 1 <= max_hops[1]}

IndexOf(s, x) == CHOOSE i \in 1..Len(s) : s[i] = x

\* p is visited before q by a search that expands neighbours in adjacency
\* order: where they first part, p takes the earlier neighbour
DfsBefore(G, p, q) ==
    \E k \in 2..Len(p) :
        /\ k <= Len(q)
        /\ \A m \in 1..(k - 1) : p[m] = q[m]
        /\ p[k] # q[k]
        /\ IndexOf(G.adj[p[k - 1]], p[k]) < IndexOf(G.adj[p[k - 1]], q[k])

Enumerating == call.op = "find_all_simple_paths_dfs"
Evaluating == call.op = "calculate_mlu_for_path"
Selecting == call.op = "find_optimal_path"
NoFeasiblePath == Returned(<<None, Inf, << >> >>)

-----------------------------------------------------------------------------
(* C1: with max_hops = h >= 1 and distinct present source and target, the   *)
(* enumeration returns exactly the simple paths of at most h edges,          *)
(* those of exactly h edges included.                                        *)
C1_ExactlyPathsWithinHops ==
    (/\ Enumerating
     /\ call.source \in Nodes /\ call.target \in Nodes
     /\ call.source # call.target
     /\ call.max_path_length # None /\ call.max_path_length[1] >= 1)
    => /\ result.kind = "return"
       /\ Range(result.value) =
            SimplePathsWithin(graph, call.source, call.target, call.max_path_length)

(* C2: every returned path starts at source, ends at target, repeats no     *)
(* node, and steps along edges of the topology only.                         *)
C2_ReturnedPathsAreSimplePaths ==
    (Enumerating /\ result.kind = "return")
    => \A i \in 1..Len(result.value) :
          LET p == result.value[i]
          IN /\ Len(p) >= 1
             /\ p[1] = call.source
             /\ p[Len(p)] = call.target
             /\ NoRepeat(p)
             /\ Adjacent(graph, p)

\* a bounded enumeration that returned several paths, one of three nodes
C2_Witness ==
    /\ Enumerating /\ result.kind = "return"
    /\ call.max_path_length # None
    /\ Len(result.value) >= 2
    /\ \E i \in 1..Len(result.value) : Len(result.value[i]) >= 3

(* C3: without a hop bound the enumeration returns every simple path from   *)
(* source to target, each once, in DFS order of the adjacency lists.         *)
C3_AllSimplePathsInDfsOrder ==
    (/\ Enumerating
     /\ call.max_path_length = None
     /\ call.source \in Nodes /\ call.target \in Nodes)
    => /\ result.kind = "return"
       /\ Range(result.value) = SimplePaths(graph, call.source, call.target)
       /\ \A i, j \in 1..Len(result.value) :
             i < j => /\ result.value[i] # result.value[j]
                      /\ DfsBefore(graph, result.value[i], result.value[j])

\* two returned paths of sibling branches pass through the same inner node
C3_Witness ==
    /\ Enumerating /\ result.kind = "return"
    /\ call.max_path_length = None
    /\ \E i, j \in 1..Len(result.value) :
          LET p == result.value[i]
              q == result.value[j]
          IN /\ i < j
             /\ p[2] # q[2]
             /\ \E n \in Range(p) \cap Range(q) : n \notin {call.source, call.target}

\* the weight an edge is evaluated with when `path` carries `bandwidth`
ProvisionalWeight(G, path, bandwidth, e) ==
    IF \E i \in 1..(Len(path) - 1) : {path[i], path[i + 1]} = e
    THEN G.weight[e] + bandwidth
    ELSE G.weight[e]

\* the greatest element of a non-empty set of integers
Maximum(S) == CHOOSE m \in S : \A x \in S : x <= m

ValidPath(G, path) == Len(path) >= 1 /\ NoRepeat(path) /\ Adjacent(G, path)

(* C4: for a topology with an edge, a valid path and bandwidth >= 0 (and a  *)
(* positive capacity) the MLU is the maximum over all edges of provisional   *)
(* weight / capacity, and so not below the maximum utilization before.       *)
C4_MluIsMaximumOverAllEdges ==
    (/\ Evaluating
     /\ EdgeSet(graph) # {}
     /\ total_capacity > 0
     /\ ValidPath(graph, call.path)
     /\ call.bandwidth >= 0)
    => /\ result.kind = "return"
       /\ result.value =
            Fraction(Maximum({ProvisionalWeight(graph, call.path, call.bandwidth, e) :
                                 e \in EdgeSet(graph)}),
                     total_capacity)
       /\ ~Less(result.value,
                Fraction(Maximum({graph.weight[e] : e \in EdgeSet(graph)}),
                         total_capacity))

\* a path taken against the direction its edges are listed in gets the
\* bandwidth, and the result is above the utilization before
C4_Witness ==
    /\ Evaluating /\ result.kind = "return"
    /\ total_capacity > 0
    /\ ValidPath(graph, call.path)
    /\ Len(call.path) >= 3
    /\ call.path[1] > call.path[2]
    /\ call.bandwidth > 0
    /\ \E e \in EdgeSet(graph) :
          /\ \A i \in 1..(Len(call.path) - 1) : {call.path[i], call.path[i + 1]} # e
          /\ graph.weight[e] > 0
    /\ Less(Fraction(Maximum({graph.weight[e] : e \in EdgeSet(graph)}), total_capacity),
            result.value)

(* C5: when a candidate exists, the ranking holds every enumerated path     *)
(* once with its MLU, ascending by MLU, equal MLUs in discovery order, and   *)
(* the best path and MLU are its first entry.                                *)
C5_RankingSortedStableBestFirst ==
    (Selecting /\ result.kind = "return" /\ result.value # NoFeasiblePath.value)
    => LET enumerated == find_all_simple_paths_dfs(graph, call.source, call.target,
                                                   call.max_path_length).value
           ranking == result.value[3]
       IN /\ Len(ranking) = Len(enumerated)
          /\ Len(ranking) >= 1
          /\ \A k \in 1..Len(enumerated) :
                Cardinality({i \in 1..Len(ranking) : ranking[i][1] = enumerated[k]}) = 1
          /\ \A i \in 1..Len(ranking) :
                ranking[i][2] = calculate_mlu_for_path(graph, total_capacity,
                                                       ranking[i][1], call.bandwidth).value
          /\ \A i, j \in 1..Len(ranking) :
                i < j => /\ ~Less(ranking[j][2], ranking[i][2])
                         /\ ranking[i][2] = ranking[j][2]
                            => IndexOf(enumerated, ranking[i][1])
                               < IndexOf(enumerated, ranking[j][1])
          /\ result.value[1] = ranking[1][1]
          /\ result.value[2] = ranking[1][2]
          /\ \A i \in 1..Len(ranking) : ~Less(ranking[i][2], result.value[2])

\* a ranking with a tie at the minimum and a worse candidate, where the
\* best path is not the first path discovered
C5_Witness ==
    /\ Selecting /\ result.kind = "return"
    /\ Len(result.value[3]) >= 3
    /\ result.value[3][1][2] = result.value[3][2][2]
    /\ Less(result.value[3][2][2], result.value[3][Len(result.value[3])][2])
    /\ result.value[1] #
         find_all_simple_paths_dfs(graph, call.source, call.target,
                                   call.max_path_length).value[1]

(* C6: find_optimal_path with a negative bandwidth fails with InvalidDemand *)
(* and returns no path, MLU or ranking.                                      *)
C6_NegativeBandwidthRejected ==
    (Selecting /\ call.bandwidth < 0)
    => result.kind = "raise"

(* C7: the enumeration, and find_optimal_path through it, fails when source *)
(* or target is not a node of the topology, and returns no path list then.   *)
C7_AbsentNodeRejected ==
    (/\ Enumerating \/ Selecting
     /\ ~HasNode(graph, call.source) \/ ~HasNode(graph, call.target))
    => result.kind = "raise"

(* C8: with both nodes present and no simple path within the hop bound,     *)
(* find_optimal_path returns exactly (none, +infinity, empty ranking), and   *)
(* none as best path never comes with a ranking or a finite MLU.             *)
C8_NoFeasiblePathResult ==
    /\ (/\ Selecting
        /\ total_capacity > 0 /\ call.bandwidth >= 0
        /\ call.source \in Nodes /\ call.target \in Nodes
        /\ SimplePathsWithin(graph, call.source, call.target,
                             call.max_path_length) = {})
       => result = NoFeasiblePath
    /\ (Selecting /\ result.kind = "return" /\ result.value[1] = None)
       => result = NoFeasiblePath

(* C9: max_hops = 0 is a bound like any other: for distinct present source  *)
(* and target the enumeration returns no path and find_optimal_path the      *)
(* no-feasible-path result.                                                  *)
C9_ZeroHopsIsABound ==
    (/\ Enumerating \/ Selecting
     /\ Selecting => (total_capacity > 0 /\ call.bandwidth >= 0)
     /\ call.max_path_length = Given(0)
     /\ call.source \in Nodes /\ call.target \in Nodes
     /\ call.source # call.target)
    => IF Enumerating THEN result = Returned(<< >>) ELSE result = NoFeasiblePath

(* C10: evaluating a topology with no edge, or with capacity 0, is rejected *)
(* with an error; no value such as 0 is returned for it.                     *)
C10_DegenerateTopologyRejected ==
    (/\ Evaluating
     /\ ValidPath(graph, call.path) /\ call.bandwidth >= 0
     /\ EdgeSet(graph) = {} \/ total_capacity = 0)
    => result.kind = "raise"

(* C11: with bandwidth = 0 (non-negative weights, a positive capacity, at   *)
(* least one candidate) every candidate has the same MLU, the maximum        *)
(* utilization of the topology before the call (greatest weight / capacity), *)
(* so the ranking is the enumeration in discovery order and the best path    *)
(* is the first path discovered.                                             *)
C11_ZeroBandwidthAllTie ==
    LET enumerated == find_all_simple_paths_dfs(graph, call.source, call.target,
                                                call.max_path_length)
    IN (/\ Selecting
        /\ call.bandwidth = 0
        /\ total_capacity > 0
        /\ enumerated.kind = "return" /\ enumerated.value # << >>)
       => /\ result.kind = "return"
          /\ Len(result.value[3]) = Len(enumerated.value)
          /\ \A i \in 1..Len(result.value[3]) :
                /\ result.value[3][i][1] = enumerated.value[i]
                /\ result.value[3][i][2] = result.value[2]
                /\ EdgeSet(graph) # {}
                   => result.value[3][i][2] =
                        Fraction(Maximum({graph.weight[e] : e \in EdgeSet(graph)}),
                                 total_capacity)
          /\ result.value[1] = enumerated.value[1]

\* several candidates evaluated with bandwidth 0 where the first path runs
\* over an edge lighter than the heaviest edge, which is scanned before the
\* last edge
C11_Witness ==
    /\ Selecting /\ result.kind = "return"
    /\ call.bandwidth = 0
    /\ total_capacity > 0
    /\ Len(result.value[3]) >= 3
    /\ Len(result.value[1]) >= 2
    /\ graph.weight[{result.value[1][1], result.value[1][2]}]
         < Maximum({graph.weight[e] : e \in EdgeSet(graph)})
    /\ LET edges == Edges(graph)
       IN edges[Len(edges)][3] < Maximum({graph.weight[e] : e \in EdgeSet(graph)})

(* C12: no operation of the core changes the caller's topology or the       *)
(* solver's capacity: nodes, adjacency, edge set and every weight are the    *)
(* same after a call as before it, whether it returned paths, no feasible    *)
(* path or raised.                                                           *)
C12_TopologyNeverChanged ==
    [][graph' = graph /\ total_capacity' = total_capacity]_vars

\* find_optimal_path evaluated several candidates with a positive bandwidth
\* over a graph whose edges carry weights
C12_Witness ==
    /\ Selecting /\ result.kind = "return"
    /\ call.bandwidth > 0
    /\ Len(result.value[3]) >= 2
    /\ \E e \in EdgeSet(graph) : graph.weight[e] > 0

(* C13: for a present node s, the enumeration from s to s returns exactly   *)
(* one path, the one-node path [s], whatever max_hops is (omitted, 0 or      *)
(* more) and whatever the neighbours of s.                                   *)
C13_SourceIsTargetGivesTrivialPath ==
    (Enumerating /\ call.source = call.target /\ call.source \in Nodes)
    => result = Returned(<< <<call.source>> >>)

\* s has neighbours and the bound is 1, the length of the path [s]
C13_Witness ==
    /\ Enumerating
    /\ call.source = call.target /\ call.source \in Nodes
    /\ call.max_path_length = Given(1)
    /\ Len(graph.adj[call.source]) >= 2
    /\ result.kind = "return"

====
